---- MODULE Spec2Model ----
(***************************************************************************)
(* A model of the subprocess JSON-RPC bridge (MCPBridge), of the campaign  *)
(* creation workflow that drives it (createCampaign and its entry points),  *)
(* and of the tool-invocation loop (runAgent).                              *)
(*                                                                         *)
(* The subprocess's stdout is a byte stream.  Bytes and characters are     *)
(* one-character strings; a JavaScript string is a sequence of characters. *)
(* The wire carries newline-delimited JSON-RPC responses in a reduced      *)
(* grammar:   { <id digit> r|e <payload characters> }                       *)
(* where r marks a "result" member and e an "error" member whose message   *)
(* is the payload, and {} is a JSON object with no id.                      *)
(***************************************************************************)
EXTENDS Integers, Sequences, FiniteSets, TLC

(* ------------------------------ bounds -------------------------------- *)
\* sendRequest invocations in one run
MaxCalls == 3
\* subprocesses spawned in one run
MaxSpawns == 2
\* lines that are no response written by the subprocesses in one run
MaxDiagnostics == 1
\* sendRequest invocations in one run of the demultiplexer's specification
MaxDemuxCalls == 2
\* createCampaign invocations in one run
MaxInvocations == 1
\* sendRequest invocations in one run of the fair specification
MaxFairCalls == 2
\* the largest maxIterations a caller of runAgent passes
MaxIterationsCap == 2
\* tool uses the reasoning service asks for in one runAgent invocation
MaxToolUses == 3
\* tool uses one response to a sub-agent asks for
MaxSubToolUses == 2
\* the ad groups of a campaign spec
MaxAdGroups == 2
\* the bridges getMCP makes, and the shutdownMCP calls that await stop() at
\* the same time
MaxBridges == 3
MaxStopping == 2

(* --------------------------- bytes and text --------------------------- *)
NL == "NL"
\* the two bytes of one two-byte UTF-8 character (written "E2" once decoded)
LeadByte == "L"
ContByte == "C"
\* U+FFFD, what the decoder puts for a byte sequence it cannot decode
Replacement == "FFFD"

Digits == <<"1", "2", "3", "4", "5", "6", "7", "8", "9">>
DigitChars == {Digits[i] : i \in 1..Len(Digits)}
DigitVal(ch) == CHOOSE i \in 1..Len(Digits) : Digits[i] = ch
\* characters that may stand inside a JSON string of the reduced grammar
StringChars == {"t", "f", "m", "E2", Replacement}

\* data.toString() of a Buffer: UTF-8 decoding of one chunk on its own.  A lead
\* byte whose continuation byte is not in the same chunk, and a continuation
\* byte with no lead byte before it, each decode to U+FFFD.
RECURSIVE BufferToString(_)
BufferToString(bytes) ==
    IF bytes = <<>> THEN <<>>
    ELSE IF Head(bytes) = LeadByte
         THEN IF Len(bytes) >= 2 /\ bytes[2] = ContByte
              THEN <<"E2">> \o BufferToString(SubSeq(bytes, 3, Len(bytes)))
              ELSE <<Replacement>> \o BufferToString(Tail(bytes))
         ELSE IF Head(bytes) = ContByte
              THEN <<Replacement>> \o BufferToString(Tail(bytes))
              ELSE <<Head(bytes)>> \o BufferToString(Tail(bytes))

\* String.prototype.split('\n'): the segments between newlines, the last one
\* being what follows the last newline (possibly empty).
RECURSIVE Split(_)
Split(s) ==
    IF \A i \in 1..Len(s) : s[i] # NL THEN <<s>>
    ELSE LET k == CHOOSE i \in 1..Len(s) :
                      s[i] = NL /\ \A j \in 1..(i - 1) : s[j] # NL
         IN <<SubSeq(s, 1, k - 1)>> \o Split(SubSeq(s, k + 1, Len(s)))

\* String.prototype.trim() over the model's one whitespace character
RECURSIVE TrimLeft(_)
TrimLeft(s) == IF s # <<>> /\ Head(s) = " " THEN TrimLeft(Tail(s)) ELSE s
RECURSIVE TrimRight(_)
TrimRight(s) ==
    IF s # <<>> /\ s[Len(s)] = " " THEN TrimRight(SubSeq(s, 1, Len(s) - 1)) ELSE s
Trim(s) == TrimRight(TrimLeft(s))

\* JSON.parse of one line followed by the reads of .id, .error and .result.
\* ok = FALSE stands for the SyntaxError; id = 0 for an absent id.
NoParse == [ok |-> FALSE, id |-> 0, error |-> FALSE, payload |-> <<>>]
JSONParse(line) ==
    LET t == Trim(line) IN
    IF t = <<"{", "}">>
    THEN [ok |-> TRUE, id |-> 0, error |-> FALSE, payload |-> <<>>]
    ELSE IF /\ Len(t) >= 5
            /\ t[1] = "{" /\ t[Len(t)] = "}"
            /\ t[2] \in DigitChars
            /\ t[3] \in {"r", "e"}
            /\ \A i \in 4..(Len(t) - 1) : t[i] \in StringChars
         THEN [ok |-> TRUE, id |-> DigitVal(t[2]), error |-> (t[3] = "e"),
               payload |-> SubSeq(t, 4, Len(t) - 1)]
         ELSE NoParse

\* what the subprocess writes: the UTF-8 bytes of a payload character
Utf8(ch) == IF ch = "E2" THEN <<LeadByte, ContByte>> ELSE <<ch>>
\* one response line as the subprocess writes it
Encode(id, kind, ch) == <<"{", Digits[id], kind>> \o Utf8(ch) \o <<"}", NL>>

\* result payloads a tool reply may carry ("t": a JSON text with success true,
\* "f": a JSON text with success false, "E2": a text that is no JSON and holds
\* a non-ASCII character) and error messages
ResultPayloads == {"t", "E2"}
ErrorPayloads == {"m"}
\* lines that are no response: not JSON, blank, and a JSON object with no id
DiagnosticLines == {<<"x", NL>>, <<" ", NL>>, <<"{", "}", NL>>}

(* -------------------------- JavaScript values -------------------------- *)
\* the values a caller may supply for an optional boolean parameter
JsValues == {"undefined", "null", "true", "false", "zero", "empty"}
\* ToBoolean
Truthy(v) == v = "true"
\* a ?? b
Nullish(a, b) == IF a \in {"undefined", "null"} THEN b ELSE a
\* a destructuring default: const { x = d } = options
DefaultParam(v, d) == IF v = "undefined" THEN d ELSE v
\* a !== false
NotStrictlyFalse(v) == IF v = "false" THEN "false" ELSE "true"

(* ------------------------------- state -------------------------------- *)
VARIABLES
    process,          \* MCPBridge.process: 0 (null) or the child's handle
    requestId,        \* MCPBridge.requestId
    pendingRequests,  \* MCPBridge.pendingRequests: id -> the call it settles
    buffer,           \* MCPBridge.buffer
    initialized,      \* MCPBridge.initialized
    timers,           \* calls whose setTimeout is armed
    calls,            \* every sendRequest so far: its request and its promise
    thrown,           \* what the last API call threw before sending, or "none"
    mcpInstance,      \* whether the module's singleton holds the bridge
    invocations,      \* the createCampaign invocations so far
    children,         \* the spawned subprocesses: stdin, undelivered stdout, life
    wrote,            \* diagnostic lines written by the subprocesses so far
    received,         \* history: the stdout bytes delivered (where recorded)
    lineLog,          \* history: the complete lines gone over (where recorded)
    agent,            \* the runAgent invocation: its locals and what it exchanged
    build,            \* the buildCampaignOperations call: its spec and its result
    singleton         \* getMCP/shutdownMCP: mcpInstance, the bridges made, the callers

vars == <<process, requestId, pendingRequests, buffer, initialized, timers,
          calls, thrown, mcpInstance, invocations, children, wrote, received,
          lineLog, agent, build, singleton>>

bridgeVars == <<process, requestId, pendingRequests, buffer, initialized,
                timers, calls, thrown, mcpInstance, invocations, children,
                wrote, received, lineLog>>

\* the program's state as one value, for the operators below; seen and micro
\* live for one handler run: the lines it went over, the promises it settled
World ==
    [process |-> process, requestId |-> requestId,
     pendingRequests |-> pendingRequests, buffer |-> buffer,
     initialized |-> initialized, timers |-> timers, calls |-> calls,
     thrown |-> thrown, mcpInstance |-> mcpInstance,
     invocations |-> invocations, children |-> children,
     seen |-> <<>>, micro |-> <<>>]

Commit(w) ==
    /\ process' = w.process
    /\ requestId' = w.requestId
    /\ pendingRequests' = w.pendingRequests
    /\ buffer' = w.buffer
    /\ initialized' = w.initialized
    /\ timers' = w.timers
    /\ calls' = w.calls
    /\ thrown' = w.thrown
    /\ mcpInstance' = w.mcpInstance
    /\ invocations' = w.invocations
    /\ children' = w.children
    /\ agent' = agent
    /\ build' = build
    /\ singleton' = singleton

MapDelete(m, k) == [x \in (DOMAIN m) \ {k} |-> m[x]]
MapSet(m, k, v) == [x \in (DOMAIN m) \cup {k} |-> IF x = k THEN v ELSE m[x]]

(* ------------------------------ promises ------------------------------ *)
\* originalResolve / originalReject of call c: the promise keeps its first
\* settlement; settles counts the invocations of the two callbacks, and line
\* is the response line that settled it.
Settle(w, c, state, value, line) ==
    [w EXCEPT !.calls[c] =
        IF @.state = "pending"
        THEN [@ EXCEPT !.state = state, !.value = value, !.line = line,
                       !.settles = @ + 1]
        ELSE [@ EXCEPT !.settles = @ + 1],
              !.micro = Append(@, c)]

\* a wrapped callback that leaves the timer armed
ClearTimeoutForgotten(w, c) == w

\* clearTimeout(timeout) in the wrapped resolve and reject
ClearTimeout(w, c) == [w EXCEPT !.timers = @ \ {c}]

\* the wrapped callbacks stored in pendingRequests
PendingResolve(w, c, value, line) ==
    Settle(ClearTimeout(w, c), c, "resolved", value, line)
PendingReject(w, c, message, line) ==
    Settle(ClearTimeout(w, c), c, "rejected", message, line)

\* the setTimeout callback of call c
TimedOut(method) == <<"Request", method, "timed out">>

\* a timer callback that forgets the request without rejecting its promise
TimeoutCallbackSilent(w, c) ==
    [w EXCEPT !.pendingRequests = MapDelete(@, w.calls[c].id)]

TimeoutCallback(w, c) ==
    Settle([w EXCEPT !.pendingRequests = MapDelete(@, w.calls[c].id)],
           c, "rejected", TimedOut(w.calls[c].method), <<>>)

(* ---------------------------- sendRequest ----------------------------- *)
\* a counter that starts again with every connection
NextRequestIdPerConnection(w) == IF w.initialized THEN w.requestId + 1 ELSE 1

\* const id = ++this.requestId
NextRequestId(w) == w.requestId + 1

\* the request (id, method, params) with its promise; kont names what awaits it
\* and owner the createCampaign invocation it belongs to (0: none)
NewCall(id, method, params, child, kont, owner) ==
    [id |-> id, method |-> method, params |-> params, child |-> child,
     kont |-> kont, owner |-> owner,
     state |-> "pending", value |-> <<>>, settles |-> 0, line |-> <<>>,
     returned |-> "nothing"]

NoParams == [name |-> "none"]

\* a check made after the id has been taken
NotStartedAfterId(w) ==
    [w EXCEPT !.requestId = @ + 1, !.thrown = "MCP not started"]

\* throw new Error('MCP not started'), before anything else
NotStarted(w) == [w EXCEPT !.thrown = "MCP not started"]

SendRequest(w, method, params, kont, owner) ==
    IF w.process = 0
    THEN NotStarted(w)
    ELSE LET id == NextRequestId(w)
             c == Len(w.calls) + 1
         IN [w EXCEPT !.requestId = id,
                      !.pendingRequests = MapSet(@, id, c),
                      !.timers = @ \cup {c},
                      !.calls = Append(@, NewCall(id, method, params,
                                                  w.process, kont, owner)),
                      !.children[w.process].stdin = Append(@, id),
                      !.thrown = "none"]

(* --------------------------- processBuffer ---------------------------- *)
\* a lookup that takes the oldest pending request, whatever id the line carries
PendingForOldest(w, r) ==
    IF r.id = 0 \/ DOMAIN w.pendingRequests = {} THEN 0
    ELSE w.pendingRequests[CHOOSE i \in DOMAIN w.pendingRequests :
                              \A j \in DOMAIN w.pendingRequests : i <= j]

\* the pending entry a parsed response settles: pendingRequests.get(response.id)
PendingFor(w, r) ==
    IF r.id \in DOMAIN w.pendingRequests THEN w.pendingRequests[r.id] ELSE 0

\* a dispatch that never looks at the error member
HasErrorIgnored(r) == FALSE

\* if (response.error)
HasError(r) == r.error

\* the body of the for loop, for one complete line
Dispatch(w, line) ==
    LET logged == [w EXCEPT !.seen = Append(@, line)]
        r == JSONParse(line)
        c == PendingFor(logged, r)
    IN IF Trim(line) = <<>> \/ ~r.ok \/ c = 0 THEN logged
       ELSE LET taken == [logged EXCEPT
                            !.pendingRequests = MapDelete(@, r.id)]
            IN IF HasError(r) THEN PendingReject(taken, c, r.payload, line)
               ELSE PendingResolve(taken, c, r.payload, line)

\* a loop whose try encloses it: the first line that fails to parse ends it
RECURSIVE DispatchAllAborting(_, _)
DispatchAllAborting(w, lines) ==
    IF lines = <<>> THEN w
    ELSE IF Trim(Head(lines)) # <<>> /\ ~JSONParse(Head(lines)).ok
         THEN [w EXCEPT !.seen = Append(@, Head(lines))]
         ELSE DispatchAllAborting(Dispatch(w, Head(lines)), Tail(lines))

RECURSIVE DispatchAll(_, _)
DispatchAll(w, lines) ==
    IF lines = <<>> THEN w
    ELSE DispatchAll(Dispatch(w, Head(lines)), Tail(lines))

ProcessBuffer(w) ==
    LET lines == Split(w.buffer)
        n == Len(lines)
    IN DispatchAll([w EXCEPT !.buffer = lines[n]], SubSeq(lines, 1, n - 1))

(* --------------------- start, callTool and mutate --------------------- *)
\* start(): throws when a process is held; else spawns, registers the three
\* observers and sends the handshake request
NewChild == [stdin |-> <<>>, stdout |-> <<>>, life |-> "running", replies |-> <<>>]

\* a start() that spawns whatever it holds
AlreadyStartedNever(w) == FALSE

\* if (this.process)
AlreadyStarted(w) == w.process # 0

StartBridge(w, kont, owner) ==
    IF AlreadyStarted(w)
    THEN [w EXCEPT !.thrown = "MCP already started"]
    ELSE SendRequest([w EXCEPT !.children = Append(@, NewChild),
                               !.process = Len(w.children) + 1],
                     "initialize", NoParams, kont, owner)

CallTool(w, params, kont, owner) ==
    IF ~w.initialized
    THEN [w EXCEPT !.thrown = "MCP not initialized"]
    ELSE SendRequest(w, "tools/call", params, kont, owner)

\* the reply content of a resolved tools/call: the JSON text parsed, or the text
Unwrap(value) ==
    IF value = <<"t">> THEN "success" ELSE IF value = <<"f">> THEN "failure" ELSE "text"

\* a default that lets an omitted dryRun through as a live mutation
MutateDryRunDefaultLive(dryRun) == DefaultParam(dryRun, "false")

\* const { customerId, dryRun = true, partialFailure = false } = options
MutateDryRun(dryRun) == DefaultParam(dryRun, "true")
MutatePartialFailure(partialFailure) == DefaultParam(partialFailure, "false")

\* the tools/call params of mutate(operations, options); given records what the
\* caller passed
MutateParams(operations, dryRun, partialFailure) ==
    [name |-> "mutate", operations |-> operations,
     dry_run |-> MutateDryRun(dryRun),
     partial_failure |-> MutatePartialFailure(partialFailure),
     given |-> <<dryRun, partialFailure>>]

MutateCall(w, operations, dryRun, partialFailure, kont, owner) ==
    CallTool(w, MutateParams(operations, dryRun, partialFailure), kont, owner)

(* --------------------------- createCampaign --------------------------- *)
\* a workflow that goes on whatever the dry run reported
DryRunFailedIgnored(result) == FALSE

\* if (!dryRunResult.success)
DryRunFailed(result) == result # "success"

Finish(w, k, pc, summary) ==
    [w EXCEPT !.invocations[k].pc = pc, !.invocations[k].summary = summary]

\* createCampaign from "Always do a dry run first"
SendDryRun(w, k) ==
    LET sent == MutateCall(w, k, "true", "true", "dry", k)
    IN IF sent.thrown # "none" THEN Finish(sent, k, "threw", sent.thrown)
       ELSE [sent EXCEPT !.invocations[k].pc = "dry"]

\* createCampaign once the dry run has returned
AfterDryRun(w, k, result) ==
    IF DryRunFailed(result) THEN Finish(w, k, "returned", "validation failed")
    ELSE IF ~Truthy(w.invocations[k].dryRun)
         THEN LET sent == MutateCall(w, k, "false", "false", "live", k)
              IN IF sent.thrown # "none" THEN Finish(sent, k, "threw", sent.thrown)
                 ELSE [sent EXCEPT !.invocations[k].pc = "live"]
         ELSE Finish(w, k, "returned", "validated")

\* createCampaign once the live mutate has returned
AfterLive(w, k, result) ==
    Finish(w, k, "returned",
           IF result = "success" THEN "created" ELSE "creation failed")

\* getMCP() as createCampaign awaits it, then the dry run
GetMCPThenDryRun(w, k) ==
    IF ~w.mcpInstance
    THEN LET started == StartBridge([w EXCEPT !.mcpInstance = TRUE], "getMCP", k)
         IN IF started.thrown # "none" THEN Finish(started, k, "threw", started.thrown)
            ELSE [started EXCEPT !.invocations[k].pc = "starting"]
    ELSE SendDryRun(w, k)

\* createCampaign(description, businessInfo, {dryRun: option}), called by entry
\* with the caller's raw value
CreateCampaign(w, entry, raw, option) ==
    LET k == Len(w.invocations) + 1
        inv == [entry |-> entry, raw |-> raw, option |-> option,
                dryRun |-> DefaultParam(option, "true"),
                pc |-> "designing", summary |-> "none"]
    IN GetMCPThenDryRun([w EXCEPT !.invocations = Append(@, inv)], k)

\* { dryRun: args.dry_run ?? true }
ToolHandlerOption(raw) == Nullish(raw, "true")
\* { dryRun: params.dry_run !== false }
WebhookOption(raw) == NotStrictlyFalse(raw)

\* what a start() that ran to its end returns to its caller
Void == "undefined"

\* an initialize() that marks the connection whatever the handshake's outcome
InitializeSettledMarkingAlways(w, c) ==
    [w EXCEPT !.initialized = TRUE,
              !.calls[c].returned =
                  IF w.calls[c].state = "resolved" THEN Void ELSE w.calls[c].value]

\* initialize() and start() once the handshake request c has settled: resolved,
\* the flag goes up and start() returns; rejected, the error leaves
\* initialize() before the flag is touched and start() fails with it
InitializeSettled(w, c) ==
    IF w.calls[c].state = "resolved"
    THEN [w EXCEPT !.initialized = TRUE, !.calls[c].returned = Void]
    ELSE [w EXCEPT !.calls[c].returned = w.calls[c].value]

(* ------------------- continuations of settled calls ------------------- *)
\* what runs when the promise of call c has settled, after the handler that
\* settled it has returned
Continue(w, c) ==
    LET call == w.calls[c]
        k == call.owner
    IN IF call.method = "initialize"
       THEN LET after == InitializeSettled(w, c)
            IN IF call.state = "resolved"
               THEN IF call.kont = "getMCP" THEN SendDryRun(after, k) ELSE after
               ELSE IF call.kont = "getMCP"
                    THEN Finish(after, k, "threw", "handshake failed")
                    ELSE after
       ELSE LET back == [w EXCEPT !.calls[c].returned =
                            IF call.state = "resolved" THEN Unwrap(call.value)
                            ELSE call.value]
            IN IF call.kont = "none" THEN back
               ELSE IF call.state = "rejected"
                    THEN Finish(back, k, "threw", "mutate failed")
                    ELSE IF call.kont = "dry"
                         THEN AfterDryRun(back, k, Unwrap(call.value))
                         ELSE AfterLive(back, k, Unwrap(call.value))

RECURSIVE RunMicrotasks(_)
RunMicrotasks(w) ==
    IF w.micro = <<>> THEN w
    ELSE RunMicrotasks(Continue([w EXCEPT !.micro = Tail(@)], Head(w.micro)))

(* ----------------------- getMCP and shutdownMCP ----------------------- *)
\* new MCPBridge(): the field initialisers
NewMCPBridge ==
    [process |-> 0, requestId |-> 0, pendingRequests |-> <<>>, buffer |-> <<>>,
     initialized |-> FALSE, timers |-> {}, calls |-> <<>>, thrown |-> "none",
     mcpInstance |-> FALSE, invocations |-> <<>>, children |-> <<>>,
     seen |-> <<>>, micro |-> <<>>]

\* a handler run is over: what lived for that run is dropped
HandlerDone(w) == [w EXCEPT !.seen = <<>>, !.micro = <<>>]

\* stop() on bridge w
StopBridge(w) ==
    IF w.process # 0
    THEN [w EXCEPT !.children[w.process].life = "killed",
                   !.process = 0,
                   !.initialized = FALSE]
    ELSE w

\* the 'exit' observer of bridge w for its child h
ExitBridge(w, h) ==
    [w EXCEPT !.children[h].life = "exited", !.process = 0, !.initialized = FALSE]

\* the stdout 'data' observer of bridge w for all its child h has written
DataBridge(w, h) ==
    HandlerDone(RunMicrotasks(ProcessBuffer(
        [w EXCEPT !.buffer = @ \o BufferToString(w.children[h].stdout),
                  !.children[h].stdout = <<>>])))

\* the timer of bridge w's request c fires
TimeoutBridge(w, c) ==
    HandlerDone(RunMicrotasks(TimeoutCallback([w EXCEPT !.timers = @ \ {c}], c)))

\* let mcpInstance: MCPBridge | null = null; bridges are the MCPBridge objects
\* made so far, starting the bridges whose start() getMCP still awaits,
\* stopping the number of shutdownMCP calls between their await and their
\* assignment, resolved what the last getMCP to resolve resolved with, rejected
\* the error the last getMCP to reject rejected with
NoResolution == [how |-> "none", ready |-> FALSE, callTool |-> "none"]
NoSingleton ==
    [mcpInstance |-> 0, bridges |-> <<>>, starting |-> {}, stopping |-> 0,
     resolved |-> NoResolution, rejected |-> <<>>]

\* the bridge is Ready: it holds a process and the handshake was acknowledged
Ready(w) == w.process # 0 /\ w.initialized

\* getMCP resolves with the value of mcpInstance: what the caller gets, and
\* what its first callTool on it throws
Resolution(s, how) ==
    LET b == s.mcpInstance
    IN [how |-> how,
        ready |-> b # 0 /\ Ready(s.bridges[b]),
        callTool |-> IF b = 0 THEN "TypeError"
                     ELSE CallTool(s.bridges[b], [name |-> "list_accounts"],
                                   "none", 0).thrown]

\* return mcpInstance
ReturnInstance(s, how) == [s EXCEPT !.resolved = Resolution(s, how)]

\* if (!mcpInstance)
InstanceMissing(s) == s.mcpInstance = 0

\* getMCP() up to its await, or to its return
GetMCPCalled(s) ==
    IF InstanceMissing(s)
    THEN LET b == Len(s.bridges) + 1
         IN [s EXCEPT !.bridges = Append(@, StartBridge(NewMCPBridge, "none", 0)),
                      !.mcpInstance = b,
                      !.starting = @ \cup {b}]
    ELSE ReturnInstance(s, "existing")

\* getMCP() after await mcpInstance.start(), once the handshake request of
\* bridge b has settled: the return, or the error of start()
GetMCPResumed(s, b) ==
    IF b \in s.starting /\ s.bridges[b].calls[1].state # "pending"
    THEN LET awake == [s EXCEPT !.starting = @ \ {b}]
         IN IF s.bridges[b].calls[1].state = "resolved"
            THEN ReturnInstance(awake, "started")
            ELSE [awake EXCEPT !.rejected = s.bridges[b].calls[1].returned]
    ELSE s

\* shutdownMCP() up to its await: stop() on the instance, if there is one
ShutdownMCPCalled(s) ==
    IF s.mcpInstance # 0
    THEN [s EXCEPT !.bridges[s.mcpInstance] = StopBridge(@),
                   !.stopping = @ + 1]
    ELSE s

\* shutdownMCP() after await mcpInstance.stop(): mcpInstance = null
ShutdownMCPResumed(s) == [s EXCEPT !.mcpInstance = 0, !.stopping = @ - 1]

(* ------------------------------ runAgent ------------------------------ *)
\* allHandlers has a handler for the first name and none for the second
RegisteredTools == {"query"}
ToolNames == {"query", "bogus"}

\* content blocks of a response
TextBlock == [type |-> "text", id |-> 0, name |-> "none", input |-> "none",
              text |-> "answer"]
ToolUseBlock(id, name) ==
    [type |-> "tool_use", id |-> id, name |-> name, input |-> "input",
     text |-> "none"]

\* thrown values: an Error with its message, or a value that is no Error
ErrorOf(message) == [isError |-> TRUE, message |-> message]
NotAnError == [isError |-> FALSE, message |-> <<>>]
UnknownTool(name) == ErrorOf(<<"Unknown tool: ", name>>)
CircularJson == ErrorOf(<<"Converting circular structure to JSON">>)
LengthOfUndefined == ErrorOf(<<"Cannot read properties of undefined (reading 'length')">>)

\* what awaiting a handler call comes to: a value (rows that serialise, the
\* value undefined, an object that holds itself) or a thrown value
HandlerOutcomes ==
    {[kind |-> "returns", value |-> v, error |-> NotAnError] :
         v \in {"rows", "undefined", "circular"}}
    \cup {[kind |-> "throws", value |-> "none", error |-> e] :
              e \in {ErrorOf(<<"permission denied">>), NotAnError}}

\* JSON.stringify(result, null, 2): a string, undefined, or a TypeError
JSONStringify(result) ==
    IF result = "circular"
    THEN [threw |-> TRUE, value |-> <<>>, error |-> CircularJson]
    ELSE IF result = "undefined"
         THEN [threw |-> FALSE, value |-> <<"undefined">>, error |-> NotAnError]
         ELSE [threw |-> FALSE, value |-> <<result, " as JSON">>, error |-> NotAnError]

\* the locals of runAgent (messages, toolCallLog, iterations, maxIterations,
\* response, toolResults, the index of the tool use the for loop is at), with
\* what it sent (requests), what happened in which order (events), how it
\* ended (result), the tool-use ids the service has issued, what the service
\* answered (responses) and what the handlers came to (outcomes)
\* a sub-agent (runHealthCheck, runBudgetOptimizer, runNegativeKeywordAnalysis)
\* that is not running: where it stands, and how many of the tool handlers of
\* its Promise.all have not settled
SubIdle == [pc |-> "idle", pending |-> 0]

NoUsage == [input_tokens |-> 0, output_tokens |-> 0]
NoResponse == [stop_reason |-> "none", content |-> <<>>, usage |-> NoUsage]
NoResult == [kind |-> "none", response |-> "none", toolCalls |-> <<>>,
             message |-> <<>>, usage |-> [inputTokens |-> 0, outputTokens |-> 0]]
NotInvoked ==
    [pc |-> "idle", maxIterations |-> 0, iterations |-> 0, messages |-> <<>>,
     toolCallLog |-> <<>>, response |-> NoResponse, toolResults |-> <<>>,
     toolIndex |-> 0, requests |-> <<>>, events |-> <<>>, result |-> NoResult,
     issued |-> 0, responses |-> <<>>, outcomes |-> <<>>,
     totalInputTokens |-> 0, totalOutputTokens |-> 0, sub |-> SubIdle]

Event(e, turn, tool) == [e |-> e, turn |-> turn, tool |-> tool]

\* while (iterations < maxIterations)
LoopGuardInclusive(a) == a.iterations <= a.maxIterations

LoopGuard(a) == a.iterations < a.maxIterations

\* the head of the while loop: the next client.messages.create, or the throw
\* after the loop
RunLoop(a) ==
    IF LoopGuard(a)
    THEN [a EXCEPT !.iterations = @ + 1,
                   !.pc = "awaitingModel",
                   !.requests = Append(@, a.messages),
                   !.events = Append(@, Event("request", a.iterations + 1, 0))]
    ELSE [a EXCEPT !.pc = "failed",
                   !.result = [NoResult EXCEPT
                                  !.kind = "threw",
                                  !.message = <<"Agent exceeded max iterations">>]]

\* response.content.filter(block => block.type === 'tool_use')
ToolUseBlocks(content) == SelectSeq(content, LAMBDA b : b.type = "tool_use")

\* response.content.find(block => block.type === 'text')?.text || ''
TextOf(content) ==
    LET texts == SelectSeq(content, LAMBDA b : b.type = "text")
    IN IF texts = <<>> THEN "" ELSE texts[1].text

\* error instanceof Error ? error.message : 'Unknown error'
ErrorMessageGeneric(error) == <<"Unknown error">>

ErrorMessage(error) == IF error.isError THEN error.message ELSE <<"Unknown error">>

\* a catch block that pushes nothing
CatchSwallowing(a, block, error) == a

\* the catch block: the error-flagged tool result
Catch(a, block, error) ==
    [a EXCEPT !.toolResults =
        Append(@, [type |-> "tool_result", tool_use_id |-> block.id,
                   content |-> <<"Error: ">> \o ErrorMessage(error),
                   is_error |-> TRUE])]

\* the try block after the handler has returned result; a tool result without
\* the is_error member is written with is_error FALSE
TryAfterHandler(a, block, result) ==
    LET resultStr == JSONStringify(result)
        logged == [a EXCEPT !.toolCallLog =
                      Append(@, [tool |-> block.name, input |-> block.input,
                                 result |-> result])]
    IN IF resultStr.threw THEN Catch(a, block, resultStr.error)
       ELSE IF resultStr.value = <<"undefined">>
            THEN Catch(logged, block, LengthOfUndefined)
            ELSE [logged EXCEPT !.toolResults =
                     Append(@, [type |-> "tool_result",
                                tool_use_id |-> block.id,
                                content |-> resultStr.value,
                                is_error |-> FALSE])]

\* a conversation that keeps the tool results only
AdvanceConversationReplacing(a) ==
    [a EXCEPT !.messages = <<[role |-> "user", content |-> a.toolResults]>>]

\* messages.push(assistant entry); messages.push(tool results)
AdvanceConversation(a) ==
    [a EXCEPT !.messages =
        @ \o <<[role |-> "assistant", content |-> a.response.content],
               [role |-> "user", content |-> a.toolResults]>>]

\* the for loop over toolUseBlocks from its i-th block on, up to the next
\* await of a handler, or through the two pushes to the head of the while loop
RECURSIVE DispatchFrom(_, _)
DispatchFrom(a, i) ==
    LET blocks == ToolUseBlocks(a.response.content)
    IN IF i > Len(blocks)
       THEN RunLoop([AdvanceConversation(a) EXCEPT !.toolIndex = 0])
       ELSE IF blocks[i].name \notin RegisteredTools
            THEN DispatchFrom(Catch(a, blocks[i], UnknownTool(blocks[i].name)),
                              i + 1)
            ELSE [a EXCEPT !.pc = "awaitingHandler",
                           !.toolIndex = i,
                           !.events = Append(@, Event("start", a.iterations, i))]

\* return { response: textBlock?.text || '', toolCalls, usage }
ReturnAnswer(a) ==
    [a EXCEPT !.pc = "completed",
              !.result = [NoResult EXCEPT
                             !.kind = "returned",
                             !.response = TextOf(a.response.content),
                             !.toolCalls = a.toolCallLog,
                             !.usage = [inputTokens |-> a.totalInputTokens,
                                        outputTokens |-> a.totalOutputTokens]]]

\* a loop that takes any response without tool uses as the answer
OtherStopReasonReturning(a) == ReturnAnswer(a)

\* a response whose stop reason is neither end_turn nor tool_use: both ifs
\* fall through to the head of the while loop
OtherStopReason(a) == RunLoop(a)

\* runAgent once client.messages.create has returned response r
OnResponse(a, r) ==
    LET got == [a EXCEPT !.response = r,
                         !.totalInputTokens = @ + r.usage.input_tokens,
                         !.totalOutputTokens = @ + r.usage.output_tokens,
                         !.events = Append(@, Event("response", a.iterations, 0))]
    IN IF r.stop_reason = "end_turn"
       THEN ReturnAnswer(got)
       ELSE IF r.stop_reason = "tool_use"
            THEN DispatchFrom([got EXCEPT !.toolResults = <<>>], 1)
            ELSE OtherStopReason(got)

\* runAgent once the handler it awaits has settled with outcome o
OnHandlerSettled(a, o) ==
    LET i == a.toolIndex
        block == ToolUseBlocks(a.response.content)[i]
        back == [a EXCEPT !.events = Append(@, Event("settle", a.iterations, i))]
    IN DispatchFrom(IF o.kind = "throws" THEN Catch(back, block, o.error)
                    ELSE TryAfterHandler(back, block, o.value),
                    i + 1)

\* the sub-agent up to its first await: client.messages.create
RunSubAgent(a) == [a EXCEPT !.sub = [pc |-> "awaitingModel", pending |-> 0]]

\* while (response.stop_reason === 'tool_use')
SubLoopGuard(stop_reason) == stop_reason = "tool_use"

\* the sub-agent after its loop: it returns its result object to the handler
\* that runAgent awaits
SubReturn(a) ==
    LET o == [kind |-> "returns", value |-> "rows", error |-> NotAnError]
    IN OnHandlerSettled(
           [a EXCEPT !.sub = SubIdle,
                     !.outcomes = Append(@, [turn |-> a.iterations,
                                             tool |-> a.toolIndex,
                                             outcome |-> o])], o)

\* the two pushes and the next client.messages.create at the foot of the loop
SubNextRequest(a) == [a EXCEPT !.sub = [pc |-> "awaitingModel", pending |-> 0]]

\* the sub-agent once client.messages.create has returned: the loop body up
\* to the await of Promise.all over k tool uses, or the return after the loop
SubOnResponse(a, stop_reason, k) ==
    IF SubLoopGuard(stop_reason)
    THEN IF k = 0 THEN SubNextRequest(a)
         ELSE [a EXCEPT !.sub = [pc |-> "awaitingTools", pending |-> k]]
    ELSE SubReturn(a)

\* one mapped async function of the Promise.all has returned its tool result
\* (a handler that throws is caught and yields a result too)
SubOnToolSettled(a) ==
    IF a.sub.pending = 1 THEN SubNextRequest(a)
    ELSE [a EXCEPT !.sub.pending = @ - 1]

(* ---------------------- buildCampaignOperations ----------------------- *)
\* Location strings are sequences of characters, so that toLowerCase, split
\* and startsWith can go over them.
UpperCase == <<"A", "B", "C", "D", "E", "F", "G", "H", "I", "J", "K", "L", "M",
               "N", "O", "P", "Q", "R", "S", "T", "U", "V", "W", "X", "Y", "Z">>
LowerCase == <<"a", "b", "c", "d", "e", "f", "g", "h", "i", "j", "k", "l", "m",
               "n", "o", "p", "q", "r", "s", "t", "u", "v", "w", "x", "y", "z">>

ToLowerCase(s) ==
    [i \in 1..Len(s) |->
        IF \E u \in 1..Len(UpperCase) : UpperCase[u] = s[i]
        THEN LowerCase[CHOOSE u \in 1..Len(UpperCase) : UpperCase[u] = s[i]]
        ELSE s[i]]

StartsWith(s, prefix) ==
    /\ Len(prefix) <= Len(s)
    /\ SubSeq(s, 1, Len(prefix)) = prefix

\* s.split(',')[0]
BeforeComma(s) ==
    IF \E i \in 1..Len(s) : s[i] = ","
    THEN SubSeq(s, 1, (CHOOSE i \in 1..Len(s) :
                          s[i] = "," /\ \A j \in 1..(i - 1) : s[j] # ",") - 1)
    ELSE s

\* the table's own keys in insertion order, with their values
OHIO_GEO_TARGETS ==
    LET Ohio == <<",", " ", "O", "h", "i", "o">>
        Dublin == <<"D", "u", "b", "l", "i", "n">>
        Powell == <<"P", "o", "w", "e", "l", "l">>
        Galena == <<"G", "a", "l", "e", "n", "a">>
        NewAlbany == <<"N", "e", "w", " ", "A", "l", "b", "a", "n", "y">>
        Westerville == <<"W", "e", "s", "t", "e", "r", "v", "i", "l", "l", "e">>
        Columbus == <<"C", "o", "l", "u", "m", "b", "u", "s">>
        Delaware == <<"D", "e", "l", "a", "w", "a", "r", "e">>
        LewisCenter == <<"L", "e", "w", "i", "s", " ", "C", "e", "n", "t", "e", "r">>
    IN
    <<[key |-> Dublin \o Ohio, id |-> "1014895"],
      [key |-> Powell \o Ohio, id |-> "1015053"],
      [key |-> Galena \o Ohio, id |-> "1014921"],
      [key |-> NewAlbany \o Ohio, id |-> "1015007"],
      [key |-> Westerville \o Ohio, id |-> "1015149"],
      [key |-> Columbus \o Ohio, id |-> "1014868"],
      [key |-> Delaware \o Ohio, id |-> "1014893"],
      [key |-> LewisCenter \o Ohio, id |-> "1014977"],
      [key |-> Dublin, id |-> "1014895"],
      [key |-> Powell, id |-> "1015053"],
      [key |-> Galena, id |-> "1014921"],
      [key |-> NewAlbany, id |-> "1015007"],
      [key |-> Westerville, id |-> "1015149"],
      [key |-> Columbus, id |-> "1014868"],
      [key |-> Delaware, id |-> "1014893"],
      [key |-> LewisCenter, id |-> "1014977"]>>

\* key.toLowerCase() of the table's keys, in the same order
LowerKeys == [i \in 1..Len(OHIO_GEO_TARGETS) |-> ToLowerCase(OHIO_GEO_TARGETS[i].key)]

\* a property name every object literal inherits from Object.prototype
InheritedKeys == {<<"c", "o", "n", "s", "t", "r", "u", "c", "t", "o", "r">>}

First(S) == CHOOSE i \in S : \A j \in S : i <= j

\* OHIO_GEO_TARGETS[location]: the own property, an inherited one (a function,
\* which is truthy), or undefined
PropertyOf(location) ==
    LET own == {i \in 1..Len(OHIO_GEO_TARGETS) : OHIO_GEO_TARGETS[i].key = location}
    IN IF own # {} THEN OHIO_GEO_TARGETS[First(own)].id
       ELSE IF location \in InheritedKeys THEN "function Object() { [native code] }"
       ELSE "undefined"

\* Object.keys(OHIO_GEO_TARGETS).find(...): the first key that matches
MatchingKey(location) ==
    LET lowerLocation == ToLowerCase(location)
        firstPart == ToLowerCase(BeforeComma(lowerLocation))
        hits == {i \in 1..Len(OHIO_GEO_TARGETS) :
                    \/ LowerKeys[i] = lowerLocation
                    \/ StartsWith(LowerKeys[i], firstPart)}
    IN IF hits = {} THEN 0 ELSE First(hits)

\* the geoTargetId the location loop ends up with
GeoTargetId(location) ==
    LET exact == PropertyOf(location)
        matchingKey == MatchingKey(location)
    IN IF exact # "undefined" THEN exact
       ELSE IF matchingKey # 0 THEN OHIO_GEO_TARGETS[matchingKey].id
       ELSE "undefined"

CustomerId == "123"

BuildBudgetOperation(customerId, tempId, dailyBudgetDollars, name) ==
    [resource_name |-> "customers/" \o customerId \o "/campaignBudgets/" \o tempId,
     name |-> name \o " Budget",
     amount_micros |-> dailyBudgetDollars * 1000000,
     delivery_method |-> 2]

BuildCampaignOperation(customerId, tempId, budgetTempId, spec) ==
    [resource_name |-> "customers/" \o customerId \o "/campaigns/" \o tempId,
     name |-> spec.name,
     status |-> 3,
     advertising_channel_type |-> 2,
     campaign_budget |->
         "customers/" \o customerId \o "/campaignBudgets/" \o budgetTempId,
     network_settings |-> spec.networks,
     bidding |-> spec.biddingStrategy]

BuildAdGroupOperation(customerId, tempId, campaignTempId, name) ==
    [resource_name |-> "customers/" \o customerId \o "/adGroups/" \o tempId,
     name |-> name,
     campaign |-> "customers/" \o customerId \o "/campaigns/" \o campaignTempId,
     status |-> 2,
     type |-> 2]

\* matchTypeMap: EXACT 2, PHRASE 3, BROAD 4
MatchTypeMap(matchType) ==
    CASE matchType = "EXACT" -> 2
      [] matchType = "PHRASE" -> 3
      [] matchType = "BROAD" -> 4

BuildKeywordOperation(customerId, tempId, adGroupTempId, keyword) ==
    [resource_name |-> "customers/" \o customerId \o "/adGroupCriteria/"
                          \o adGroupTempId \o "~" \o tempId,
     ad_group |-> "customers/" \o customerId \o "/adGroups/" \o adGroupTempId,
     status |-> 2,
     keyword |-> [text |-> keyword.text,
                  match_type |-> MatchTypeMap(keyword.matchType)]]

BuildAdOperation(customerId, tempId, adGroupTempId, ad) ==
    [resource_name |-> "customers/" \o customerId \o "/adGroupAds/"
                          \o adGroupTempId \o "~" \o tempId,
     ad_group |-> "customers/" \o customerId \o "/adGroups/" \o adGroupTempId,
     status |-> 2,
     ad |-> [headlines |-> ad.headlines, descriptions |-> ad.descriptions,
             final_urls |-> <<ad.finalUrl>>]]

BuildLocationTargetOperation(customerId, campaignTempId, geoTargetId) ==
    [campaign |-> "customers/" \o customerId \o "/campaigns/" \o campaignTempId,
     type |-> 6,
     geo_target_constant |-> "geoTargetConstants/" \o geoTargetId,
     negative |-> FALSE]

\* the locals of one buildCampaignOperations call; issued is the history of
\* the ids getNextTempId handed out
NoOperations == [operations |-> <<>>, tempIdCounter |-> -1, issued |-> <<>>]

\* a counter that is read but never moved
PostDecrementStuck(counter) == counter

\* tempIdCounter--
PostDecrement(counter) == counter - 1

\* const getNextTempId = () => String(tempIdCounter--)
TempId(st) == ToString(st.tempIdCounter)
GetNextTempId(st) ==
    [st EXCEPT !.tempIdCounter = PostDecrement(@), !.issued = Append(@, TempId(st))]

Push(st, entity, resource) ==
    [st EXCEPT !.operations =
        Append(@, [entity |-> entity, operation |-> "create", resource |-> resource])]

\* for (const location of spec.locations), from the i-th location on
RECURSIVE LocationLoop(_, _, _, _, _)
LocationLoop(st, customerId, campaignTempId, locations, i) ==
    IF i > Len(locations) THEN st
    ELSE LET geoTargetId == GeoTargetId(locations[i])
         IN LocationLoop(
                IF geoTargetId # "undefined"
                THEN Push(st, "campaign_criterion",
                          BuildLocationTargetOperation(customerId, campaignTempId,
                                                       geoTargetId))
                ELSE st,
                customerId, campaignTempId, locations, i + 1)

\* for (const keyword of adGroupSpec.keywords), from the i-th keyword on
RECURSIVE KeywordLoop(_, _, _, _, _)
KeywordLoop(st, customerId, adGroupTempId, keywords, i) ==
    IF i > Len(keywords) THEN st
    ELSE KeywordLoop(Push(GetNextTempId(st), "ad_group_criterion",
                          BuildKeywordOperation(customerId, TempId(st),
                                                adGroupTempId, keywords[i])),
                     customerId, adGroupTempId, keywords, i + 1)

\* for (const ad of adGroupSpec.ads), from the i-th ad on
RECURSIVE AdLoop(_, _, _, _, _)
AdLoop(st, customerId, adGroupTempId, ads, i) ==
    IF i > Len(ads) THEN st
    ELSE AdLoop(Push(GetNextTempId(st), "ad_group_ad",
                     BuildAdOperation(customerId, TempId(st), adGroupTempId,
                                      ads[i])),
                customerId, adGroupTempId, ads, i + 1)

\* for (const adGroupSpec of spec.adGroups), from the i-th ad group on
RECURSIVE AdGroupLoop(_, _, _, _, _)
AdGroupLoop(st, customerId, campaignTempId, adGroups, i) ==
    IF i > Len(adGroups) THEN st
    ELSE LET adGroupTempId == TempId(st)
             group == Push(GetNextTempId(st), "ad_group",
                           BuildAdGroupOperation(customerId, adGroupTempId,
                                                 campaignTempId, adGroups[i].name))
             keywords == KeywordLoop(group, customerId, adGroupTempId,
                                     adGroups[i].keywords, 1)
             ads == AdLoop(keywords, customerId, adGroupTempId, adGroups[i].ads, 1)
         IN AdGroupLoop(ads, customerId, campaignTempId, adGroups, i + 1)

BuildCampaignOperations(customerId, spec) ==
    LET budgetTempId == TempId(NoOperations)
        budget == Push(GetNextTempId(NoOperations), "campaign_budget",
                       BuildBudgetOperation(customerId, budgetTempId,
                                            spec.dailyBudget, spec.name))
        campaignTempId == TempId(budget)
        campaign == Push(GetNextTempId(budget), "campaign",
                         BuildCampaignOperation(customerId, campaignTempId,
                                                budgetTempId, spec))
        located == LocationLoop(campaign, customerId, campaignTempId,
                                spec.locations, 1)
    IN AdGroupLoop(located, customerId, campaignTempId, spec.adGroups, 1)

NoSpec == [name |-> "none", dailyBudget |-> 0, biddingStrategy |-> "none",
           networks |-> "none", locations |-> <<>>, adGroups |-> <<>>]
NotBuilding == [pc |-> "idle", spec |-> NoSpec, built |-> NoOperations]

(* ------------------------------ actions ------------------------------- *)
Init ==
    /\ process = 0
    /\ requestId = 0
    /\ pendingRequests = <<>>
    /\ buffer = <<>>
    /\ initialized = FALSE
    /\ timers = {}
    /\ calls = <<>>
    /\ thrown = "none"
    /\ mcpInstance = FALSE
    /\ invocations = <<>>
    /\ children = <<>>
    /\ wrote = 0
    /\ received = <<>>
    /\ lineLog = <<>>
    /\ agent = NotInvoked
    /\ build = NotBuilding
    /\ singleton = NoSingleton

\* start() called on the bridge
Start ==
    /\ Len(calls) < MaxCalls
    /\ process = 0 => Len(children) < MaxSpawns
    /\ Commit(StartBridge(World, "none", 0))
    /\ UNCHANGED <<wrote, received, lineLog>>

\* a stop() that leaves the initialized flag as it is
StopKeepingFlag ==
    /\ IF process # 0
       THEN /\ children' = [children EXCEPT ![process].life = "killed"]
            /\ process' = 0
       ELSE UNCHANGED <<children, process>>
    /\ thrown' = "none"
    /\ UNCHANGED <<requestId, pendingRequests, buffer, initialized, timers,
                   calls, mcpInstance, invocations, wrote, received, lineLog,
                   agent, build,
                   singleton>>

\* stop()
Stop ==
    /\ IF process # 0
       THEN /\ children' = [children EXCEPT ![process].life = "killed"]
            /\ process' = 0
            /\ initialized' = FALSE
       ELSE UNCHANGED <<children, process, initialized>>
    /\ thrown' = "none"
    /\ UNCHANGED <<requestId, pendingRequests, buffer, timers, calls,
                   mcpInstance, invocations, wrote, received, lineLog, agent, build,
                   singleton>>

\* an exit observer that leaves the initialized flag as it is
ExitKeepingFlag(h) ==
    /\ children[h].life \in {"running", "killed"}
    /\ children' = [children EXCEPT ![h].life = "exited"]
    /\ process' = 0
    /\ UNCHANGED <<requestId, pendingRequests, buffer, initialized, timers,
                   calls, thrown, mcpInstance, invocations, wrote, received,
                   lineLog, agent, build,
                   singleton>>

\* the 'exit' observer of child h
Exit(h) ==
    /\ children[h].life \in {"running", "killed"}
    /\ children' = [children EXCEPT ![h].life = "exited"]
    /\ process' = 0
    /\ initialized' = FALSE
    /\ UNCHANGED <<requestId, pendingRequests, buffer, timers, calls, thrown,
                   mcpInstance, invocations, wrote, received, lineLog, agent, build,
                   singleton>>

\* the stdout 'data' observer of child h, for a chunk of k bytes
DataHandler(h, k) ==
    LET chunk == SubSeq(children[h].stdout, 1, k)
    IN ProcessBuffer([World EXCEPT
                        !.buffer = @ \o BufferToString(chunk),
                        !.children[h].stdout = SubSeq(@, k + 1, Len(@))])

OnData(h, k) ==
    /\ Commit(RunMicrotasks(DataHandler(h, k)))
    /\ UNCHANGED <<wrote, received, lineLog>>

\* the same, recording the bytes delivered and the lines gone over
OnDataLogged(h, k) ==
    /\ Commit(RunMicrotasks(DataHandler(h, k)))
    /\ received' = received \o SubSeq(children[h].stdout, 1, k)
    /\ lineLog' = lineLog \o DataHandler(h, k).seen
    /\ UNCHANGED wrote

\* the chunk sizes that end child h's undelivered output at a line end
LineEnds(h) == {k \in 1..Len(children[h].stdout) : children[h].stdout[k] = NL}

\* the 60 second timer of call c fires
Timeout(c) ==
    /\ c \in timers
    /\ Commit(RunMicrotasks(TimeoutCallback([World EXCEPT !.timers = @ \ {c}], c)))
    /\ UNCHANGED <<wrote, received, lineLog>>

\* listAccounts(), query(gaql), mutate(operations, options) called on the bridge
ListAccounts ==
    /\ Len(calls) < MaxCalls
    /\ Commit(CallTool(World, [name |-> "list_accounts"], "none", 0))
    /\ UNCHANGED <<wrote, received, lineLog>>

Query ==
    /\ Len(calls) < MaxCalls
    /\ Commit(CallTool(World, [name |-> "query"], "none", 0))
    /\ UNCHANGED <<wrote, received, lineLog>>

Mutate(dryRun, partialFailure) ==
    /\ Len(calls) < MaxCalls
    /\ Commit(MutateCall(World, 0, dryRun, partialFailure, "none", 0))
    /\ UNCHANGED <<wrote, received, lineLog>>

\* the entry points that create a campaign
Enter(entry, raw, option) ==
    /\ Len(invocations) < MaxInvocations
    /\ Len(calls) < MaxCalls
    /\ Commit(CreateCampaign(World, entry, raw, option))
    /\ UNCHANGED <<wrote, received, lineLog>>

ToolHandler(raw) == Enter("create_campaign tool", raw, ToolHandlerOption(raw))
Webhook(raw) == Enter("webhook", raw, WebhookOption(raw))
CliValidate == Enter("cli validate", "true", "true")
CliCreate == Enter("cli create", "false", "false")
DirectCall(raw) == Enter("createCampaign", raw, raw)

\* the subprocess that holds the request of call c answers it, once, with a
\* result or an error
ResponseLines(c) ==
    {Encode(calls[c].id, "r", p) : p \in ResultPayloads}
    \cup {Encode(calls[c].id, "e", p) : p \in ErrorPayloads}

Respond(c, line) ==
    LET h == calls[c].child IN
    /\ children[h].life = "running"
    /\ c \notin DOMAIN children[h].replies
    /\ children' = [children EXCEPT ![h].stdout = @ \o line,
                                    ![h].replies = MapSet(@, c, line)]
    /\ UNCHANGED <<process, requestId, pendingRequests, buffer, initialized,
                   timers, calls, thrown, mcpInstance, invocations, wrote,
                   received, lineLog, agent, build,
                   singleton>>

\* the subprocess h writes a line that is no response
Diagnostic(h, line) ==
    /\ children[h].life = "running"
    /\ wrote < MaxDiagnostics
    /\ wrote' = wrote + 1
    /\ children' = [children EXCEPT ![h].stdout = @ \o line]
    /\ UNCHANGED <<process, requestId, pendingRequests, buffer, initialized,
                   timers, calls, thrown, mcpInstance, invocations, received,
                   lineLog, agent, build,
                   singleton>>

\* runAgent(userMessage, {maxIterations: n})
RunAgent(n) ==
    /\ agent.pc = "idle"
    /\ agent' = RunLoop([NotInvoked EXCEPT
                            !.maxIterations = n,
                            !.messages = <<[role |-> "user",
                                            content |-> <<TextBlock>>]>>])
    /\ UNCHANGED <<bridgeVars, build, singleton>>

\* the responses the reasoning service may give: the completion signal with or
\* without a text, a response cut off at max_tokens, or a text and k tool uses
\* with ids of its own making
ToolUses(first, names) ==
    [i \in 1..Len(names) |-> ToolUseBlock(first + i, names[i])]

UsageOf(a, content) ==
    [input_tokens |-> Len(a.messages), output_tokens |-> 1 + Len(content)]

Responses(a) ==
    {[stop_reason |-> "end_turn", content |-> c, usage |-> UsageOf(a, c)] :
        c \in {<<>>, <<TextBlock>>}}
    \cup {[stop_reason |-> "max_tokens", content |-> <<TextBlock>>,
            usage |-> UsageOf(a, <<TextBlock>>)]}
    \cup {[stop_reason |-> "tool_use",
           content |-> <<TextBlock>> \o ToolUses(a.issued, names),
           usage |-> UsageOf(a, <<TextBlock>> \o ToolUses(a.issued, names))] :
              names \in UNION {[1..k -> ToolNames] : k \in 0..(MaxToolUses - a.issued)}}

\* client.messages.create returns r
ServiceResponds(r) ==
    /\ agent.pc = "awaitingModel"
    /\ agent' = OnResponse([agent EXCEPT
                               !.issued = @ + Len(ToolUseBlocks(r.content)),
                               !.responses = Append(@, r)], r)
    /\ UNCHANGED <<bridgeVars, build, singleton>>

\* the handler that runAgent awaits settles
HandlerSettles(o) ==
    /\ agent.pc = "awaitingHandler"
    /\ agent.sub.pc = "idle"
    /\ agent' = OnHandlerSettled(
                     [agent EXCEPT !.outcomes =
                         Append(@, [turn |-> agent.iterations,
                                    tool |-> agent.toolIndex,
                                    outcome |-> o])], o)
    /\ UNCHANGED <<bridgeVars, build, singleton>>

\* the handler that runAgent awaits is a sub-agent handler: the sub-agent
\* builds its conversation and makes its first client.messages.create
SubAgentCalled ==
    /\ agent.pc = "awaitingHandler"
    /\ agent.sub.pc = "idle"
    /\ agent' = RunSubAgent(agent)
    /\ UNCHANGED <<bridgeVars, build, singleton>>

SubStopReasons == {"end_turn", "max_tokens", "tool_use"}

\* the sub-agent's client.messages.create returns a response with this stop
\* reason and k tool uses
SubServiceResponds(stop_reason, k) ==
    /\ agent.sub.pc = "awaitingModel"
    /\ agent' = SubOnResponse(agent, stop_reason, k)
    /\ UNCHANGED <<bridgeVars, build, singleton>>

\* one tool handler of the sub-agent's Promise.all settles
SubToolSettles ==
    /\ agent.sub.pc = "awaitingTools"
    /\ agent' = SubOnToolSettled(agent)
    /\ UNCHANGED <<bridgeVars, build, singleton>>

\* the campaign specs a caller may hand over: locations that are a key of the
\* table, that match one without regard to case, that match none, the empty
\* string, and a name every object inherits
LocationLists ==
    LET Powell == <<"P", "o", "w", "e", "l", "l">>
        ColumbusOhio == <<"C", "o", "l", "u", "m", "b", "u", "s", ",", " ", "O", "h", "i", "o">>
        DublinOh == <<"d", "u", "b", "l", "i", "n", ",", " ", "o", "h">>
        Paris == <<"P", "a", "r", "i", "s">>
        Constructor == <<"c", "o", "n", "s", "t", "r", "u", "c", "t", "o", "r">>
    IN  {<<>>, <<Powell>>, <<DublinOh>>, <<Paris>>, <<<<>>>>, <<Constructor>>,
         <<Paris, Powell>>, <<Powell, Powell>>, <<DublinOh, Paris, ColumbusOhio>>}
KeywordLists ==
    LET Mowing == [text |-> "mowing", matchType |-> "EXACT"]
        LawnCare == [text |-> "lawn care", matchType |-> "PHRASE"]
    IN  {<<>>, <<Mowing>>, <<Mowing, LawnCare>>}
AdLists ==
    LET Ad == [headlines |-> <<"Lawn care">>, descriptions |-> <<"Call today">>,
               finalUrl |-> "https://example.com"]
    IN  {<<>>, <<Ad>>, <<Ad, Ad>>}
SeqsUpTo(S, n) == UNION {[1..k -> S] : k \in 0..n}
AdGroupSpecs ==
    {[name |-> "Lawn Care", keywords |-> ks, ads |-> as] :
        ks \in KeywordLists, as \in AdLists}
CampaignSpecs ==
    {[name |-> "Spring", dailyBudget |-> 50, biddingStrategy |-> "MAXIMIZE_CLICKS",
      networks |-> "SEARCH_ONLY", locations |-> ls, adGroups |-> gs] :
        ls \in LocationLists, gs \in SeqsUpTo(AdGroupSpecs, MaxAdGroups)}

\* buildCampaignOperations(customerId, spec) is called and returns
Build(spec) ==
    /\ build.pc = "idle"
    /\ build' = [pc |-> "returned", spec |-> spec,
                 built |-> BuildCampaignOperations(CustomerId, spec)]
    /\ UNCHANGED <<bridgeVars, agent, singleton>>

\* a caller calls getMCP()
GetMCP ==
    /\ InstanceMissing(singleton) => Len(singleton.bridges) < MaxBridges
    /\ singleton' = GetMCPCalled(singleton)
    /\ UNCHANGED <<bridgeVars, agent, build>>

\* a caller calls shutdownMCP()
ShutdownMCP ==
    /\ singleton.stopping < MaxStopping
    /\ singleton' = ShutdownMCPCalled(singleton)
    /\ UNCHANGED <<bridgeVars, agent, build>>

\* the oldest shutdownMCP() that awaits stop() goes on
ShutdownMCPResumes ==
    /\ singleton.stopping > 0
    /\ singleton' = ShutdownMCPResumed(singleton)
    /\ UNCHANGED <<bridgeVars, agent, build>>

\* The continuation of an awaited stop() is a microtask: between the call of
\* shutdownMCP and it, other callers' microtasks run, but no event of a
\* subprocess or timer is delivered.
NoMicrotask == singleton.stopping = 0

\* the subprocess of bridge b answers the handshake request with this line
HandshakeReply(b, line) ==
    LET w == singleton.bridges[b] IN
    /\ NoMicrotask
    /\ w.children[1].life = "running"
    /\ 1 \notin DOMAIN w.children[1].replies
    /\ singleton' = [singleton EXCEPT
                        !.bridges[b].children[1].stdout = @ \o line,
                        !.bridges[b].children[1].replies = MapSet(@, 1, line)]
    /\ UNCHANGED <<bridgeVars, agent, build>>

\* what the subprocess of bridge b has written is delivered
BridgeData(b) ==
    LET w == singleton.bridges[b] IN
    /\ NoMicrotask
    /\ w.children[1].stdout # <<>>
    /\ singleton' = GetMCPResumed(
                        [singleton EXCEPT !.bridges[b] = DataBridge(w, 1)], b)
    /\ UNCHANGED <<bridgeVars, agent, build>>

\* the subprocess of bridge b exits and its 'exit' event is delivered
BridgeExit(b) ==
    LET w == singleton.bridges[b] IN
    /\ NoMicrotask
    /\ w.children[1].life \in {"running", "killed"}
    /\ singleton' = [singleton EXCEPT !.bridges[b] = ExitBridge(w, 1)]
    /\ UNCHANGED <<bridgeVars, agent, build>>

\* the timer of the handshake request of bridge b fires
BridgeTimeout(b) ==
    LET w == singleton.bridges[b] IN
    /\ NoMicrotask
    /\ 1 \in w.timers
    /\ singleton' = GetMCPResumed(
                        [singleton EXCEPT !.bridges[b] = TimeoutBridge(w, 1)], b)
    /\ UNCHANGED <<bridgeVars, agent, build>>

(* --------------------------- specifications --------------------------- *)
\* The bridge, its callers and its subprocesses; the pipe hands over whole
\* lines, and the subprocesses write responses only.
AsciiResponses(c) == {Encode(calls[c].id, "r", "t"), Encode(calls[c].id, "e", "m")}

Next ==
    \/ Start
    \/ Stop
    \/ ListAccounts
    \/ \E h \in 1..Len(children) : Exit(h)
    \/ \E c \in 1..Len(calls) : Timeout(c)
    \/ \E c \in 1..Len(calls) : \E line \in AsciiResponses(c) : Respond(c, line)
    \/ \E h \in 1..Len(children) : \E k \in LineEnds(h) : OnData(h, k)

Spec == Init /\ [][Next]_vars

\* The demultiplexer under every chunking of the subprocess's output, which
\* holds responses, lines that are none, and non-ASCII text.
NextDemux ==
    \/ Len(calls) < MaxDemuxCalls /\ Start
    \/ Len(calls) < MaxDemuxCalls /\ ListAccounts
    \/ \E c \in 1..Len(calls) : \E line \in ResponseLines(c) : Respond(c, line)
    \/ \E h \in 1..Len(children) : \E line \in DiagnosticLines : Diagnostic(h, line)
    \/ \E h \in 1..Len(children) :
          \E k \in 1..Len(children[h].stdout) : OnDataLogged(h, k)

SpecDemux == Init /\ [][NextDemux]_vars

\* The callers of mutate and of createCampaign over the bridge.
CampaignResponses(c) ==
    {Encode(calls[c].id, "r", "t"), Encode(calls[c].id, "r", "f"),
     Encode(calls[c].id, "e", "m")}

NextCampaign ==
    \/ \E raw \in JsValues : ToolHandler(raw)
    \/ \E raw \in JsValues : Webhook(raw)
    \/ CliValidate
    \/ CliCreate
    \/ \E raw \in JsValues : DirectCall(raw)
    \/ \E c \in 1..Len(calls) : Timeout(c)
    \/ \E c \in 1..Len(calls) : \E line \in CampaignResponses(c) : Respond(c, line)
    \/ \E h \in 1..Len(children) : \E k \in LineEnds(h) : OnData(h, k)

SpecCampaign == Init /\ [][NextCampaign]_vars

\* The high-level verbs called by a caller that awaits each one before it calls
\* the next.
MutateCalls == {c \in 1..Len(calls) : calls[c].params.name = "mutate"}

Awaiting == \E c \in 1..Len(calls) : calls[c].state = "pending"

NextVerbs ==
    \/ Start
    \/ ~Awaiting /\ ListAccounts
    \/ ~Awaiting /\ Query
    \/ /\ ~Awaiting
       /\ MutateCalls = {}
       /\ \E d \in JsValues : \E pf \in {"undefined", "true", "false"} : Mutate(d, pf)
    \/ \E c \in 1..Len(calls) : Timeout(c)
    \/ \E c \in 1..Len(calls) : \E line \in AsciiResponses(c) : Respond(c, line)
    \/ \E h \in 1..Len(children) : \E k \in LineEnds(h) : OnData(h, k)

SpecVerbs == Init /\ [][NextVerbs]_vars

\* The bridge when only handshakes are answered, with the event loop's
\* guarantee that an armed timer fires.
HandshakeResponses(c) ==
    IF calls[c].method = "initialize" THEN {Encode(calls[c].id, "r", "t")} ELSE {}

NextSilent ==
    \/ Len(calls) < MaxFairCalls /\ Start
    \/ Stop
    \/ Len(calls) < MaxFairCalls /\ ListAccounts
    \/ \E h \in 1..Len(children) : Exit(h)
    \/ \E c \in 1..Len(calls) : Timeout(c)
    \/ \E c \in 1..Len(calls) : \E line \in HandshakeResponses(c) : Respond(c, line)
    \/ \E h \in 1..Len(children) : \E k \in LineEnds(h) : OnData(h, k)

SpecFair ==
    Init /\ [][NextSilent]_vars /\ WF_vars(\E c \in 1..Len(calls) : Timeout(c))

\* The tool-invocation loop with its reasoning service and its handlers.
NextAgent ==
    \/ \E n \in 0..MaxIterationsCap : RunAgent(n)
    \/ \E r \in Responses(agent) : ServiceResponds(r)
    \/ \E o \in HandlerOutcomes : HandlerSettles(o)

SpecAgent == Init /\ [][NextAgent]_vars

\* The tool loop with sub-agent handlers among its handlers. Every call of the
\* reasoning service returns and every handler step is taken: each step of an
\* invocation that is under way is weakly fair.
AgentStep ==
    \/ \E r \in Responses(agent) : ServiceResponds(r)
    \/ \E o \in HandlerOutcomes : HandlerSettles(o)
    \/ SubAgentCalled
    \/ \E stop_reason \in SubStopReasons, k \in 0..MaxSubToolUses :
           SubServiceResponds(stop_reason, k)
    \/ SubToolSettles

NextSubAgent ==
    \/ \E n \in 0..MaxIterationsCap : RunAgent(n)
    \/ AgentStep

SpecSubAgent == Init /\ [][NextSubAgent]_vars /\ WF_vars(AgentStep)

\* The singleton and its callers: getMCP and shutdownMCP in any order, the
\* subprocesses answering the handshake, exiting, or staying silent.
NextSingleton ==
    \/ GetMCP
    \/ ShutdownMCP
    \/ ShutdownMCPResumes
    \/ \E b \in 1..Len(singleton.bridges) :
          \E line \in {Encode(1, "r", "t"), Encode(1, "e", "m")} :
              HandshakeReply(b, line)
    \/ \E b \in 1..Len(singleton.bridges) : BridgeData(b)
    \/ \E b \in 1..Len(singleton.bridges) : BridgeExit(b)
    \/ \E b \in 1..Len(singleton.bridges) : BridgeTimeout(b)

SpecSingleton == Init /\ [][NextSingleton]_vars

\* buildCampaignOperations on every campaign spec of the bounded family
NextBuild == \E spec \in CampaignSpecs : Build(spec)

SpecBuild == Init /\ [][NextBuild]_vars

(* ------------------------------- claims ------------------------------- *)
CallIds == 1..Len(calls)
ResponseSettled(c) == calls[c].line # <<>>
Registered(c) ==
    /\ calls[c].id \in DOMAIN pendingRequests
    /\ pendingRequests[calls[c].id] = c
RepliedTo(c) == c \in DOMAIN children[calls[c].child].replies
ReplyTo(c) == children[calls[c].child].replies[c]

\* C1: a response line settles the one pending request whose id it carries,
\* with that line's own payload, and no other request, whatever the order in
\* which the responses to concurrently pending requests arrive: every request
\* settled by a line was settled by the line its subprocess wrote in reply to
\* it, that line carries its id, and its outcome is that line's payload.
C1_OwnResponse ==
    \A c \in CallIds :
        ResponseSettled(c) =>
            LET r == JSONParse(calls[c].line)
            IN /\ RepliedTo(c)
               /\ BufferToString(ReplyTo(c)) = Append(calls[c].line, NL)
               /\ r.ok /\ r.id = calls[c].id
               /\ calls[c].value = r.payload
               /\ calls[c].state = IF r.error THEN "rejected" ELSE "resolved"

\* two tool calls A then B are outstanding together and B's response has
\* arrived and settled B while A is still pending
C1_Witness ==
    \E a, b \in CallIds :
        /\ a < b
        /\ calls[a].method = "tools/call" /\ calls[b].method = "tools/call"
        /\ calls[a].state = "pending"
        /\ ResponseSettled(b) /\ calls[b].state = "rejected"

\* C2: every request settles exactly once, by its result line, its error line or
\* its timer, whichever comes first; a settled request is out of the pending
\* set, its timer is disarmed, and no late line or timer settles it again.
C2_SettlesOnce ==
    \A c \in CallIds :
        /\ calls[c].settles <= 1
        /\ (calls[c].state = "pending") <=> (calls[c].settles = 0)
        /\ calls[c].state = "pending" => Registered(c) /\ c \in timers
        /\ calls[c].state # "pending" => ~Registered(c) /\ c \notin timers
        /\ calls[c].state = "resolved" =>
               ResponseSettled(c) /\ ~JSONParse(calls[c].line).error
        /\ calls[c].state = "rejected" =>
               \/ ResponseSettled(c) /\ JSONParse(calls[c].line).error
               \/ ~ResponseSettled(c) /\ calls[c].value = TimedOut(calls[c].method)

\* a request was rejected by its timer and its response line came afterwards
C2_Witness ==
    \E c \in CallIds :
        /\ calls[c].value = TimedOut(calls[c].method)
        /\ RepliedTo(c)
        /\ children[calls[c].child].stdout = <<>>
        /\ buffer = <<>>

\* C3: a request that is sent eventually leaves the pending state, and when no
\* response line settled it, it was rejected with the timeout error and removed
\* from the pending set, also when its subprocess exits or stop() is called.
C3_Settled(c) ==
    /\ c <= Len(calls)
    /\ calls[c].state # "pending"
    /\ ~Registered(c)
    /\ ~ResponseSettled(c) =>
           calls[c].state = "rejected" /\ calls[c].value = TimedOut(calls[c].method)

C3_NoHang ==
    \A c \in 1..MaxFairCalls :
        (c <= Len(calls) /\ calls[c].state = "pending") ~> C3_Settled(c)

\* a request never answered, whose subprocess is gone, was rejected by its timer
C3_Witness ==
    \E c \in CallIds :
        /\ calls[c].value = TimedOut(calls[c].method)
        /\ ~RepliedTo(c)
        /\ children[calls[c].child].life \in {"killed", "exited"}

\* C4: the request ids of one bridge strictly increase in allocation order, so
\* they are pairwise distinct, across exit, stop and a later start.
C4_IdsIncrease ==
    \A c1, c2 \in CallIds : c1 < c2 => calls[c1].id < calls[c2].id

\* an id was allocated on a second subprocess while a request sent to the first
\* one is still pending
C4_Witness ==
    \E c1, c2 \in CallIds :
        /\ calls[c1].child = 1 /\ calls[c1].state = "pending"
        /\ calls[c2].child = 2

\* C5: the lines extracted and the fragment left in the buffer are those of the
\* same bytes delivered in one chunk, however the bytes were split into chunks.
C5_ChunkIndependent ==
    Split(BufferToString(received)) = Append(lineLog, buffer)

\* C6: a complete line that is not JSON or carries no pending id settles nothing
\* and leaves the pending set alone, and the response lines around it are
\* still dispatched: every request whose response line has fully arrived is
\* settled, by a line that carries its id, and every other request is pending
\* and registered.
CompleteLines(bytes) ==
    LET lines == Split(BufferToString(bytes))
    IN SubSeq(lines, 1, Len(lines) - 1)

ArrivedIds ==
    LET lines == CompleteLines(received)
    IN {JSONParse(lines[k]).id : k \in {j \in 1..Len(lines) : JSONParse(lines[j]).ok}}

C6_DiscardsOthers ==
    LET arrived == ArrivedIds
    IN \A c \in CallIds :
           /\ calls[c].id \in arrived =>
                  /\ calls[c].state # "pending"
                  /\ JSONParse(calls[c].line).id = calls[c].id
                  /\ \E k \in 1..Len(lineLog) : lineLog[k] = calls[c].line
           /\ calls[c].id \notin arrived =>
                  calls[c].state = "pending" /\ Registered(c)

\* a line that is not JSON went by between two response lines, one chunk held
\* it and the response after it, and both requests are settled
C6_Witness ==
    /\ Len(lineLog) = 3
    /\ lineLog[2] = <<"x">>
    /\ Len(calls) = 2
    /\ ResponseSettled(1) /\ ResponseSettled(2)
    /\ calls[1].line = lineLog[1] /\ calls[2].line = lineLog[3]

\* C7: a response line with the error member rejects its request with the
\* line's error message, takes it out of the pending set, the request is
\* written to the subprocess once only, and the verb that sent it rejects with
\* the same message.
TimesWritten(c) ==
    Cardinality({<<h, i>> \in (1..Len(children)) \X (1..MaxCalls) :
                    i <= Len(children[h].stdin) /\ children[h].stdin[i] = calls[c].id})

C7_ErrorRejects ==
    \A c \in CallIds :
        (ResponseSettled(c) /\ JSONParse(calls[c].line).error) =>
            /\ calls[c].state = "rejected"
            /\ calls[c].value = JSONParse(calls[c].line).payload
            /\ ~Registered(c)
            /\ TimesWritten(c) = 1
            /\ calls[c].method = "tools/call" => calls[c].returned = calls[c].value

\* a query and a mutate were each rejected by an error line
C7_Witness ==
    \E q, m \in CallIds :
        /\ calls[q].params.name = "query" /\ calls[m].params.name = "mutate"
        /\ calls[q].state = "rejected" /\ calls[m].state = "rejected"
        /\ ResponseSettled(q) /\ ResponseSettled(m)
        /\ calls[q].returned = <<"m">> /\ calls[m].returned = <<"m">>

\* C8: every mutate request carries both flags; dry_run is true when dryRun was
\* omitted, as when true was passed; partial_failure is false when
\* partialFailure was omitted; and dry_run is false only when the caller passed
\* false.
C8_MutateDefaults ==
    \A c \in MutateCalls :
        LET p == calls[c].params
        IN /\ p.dry_run # "undefined" /\ p.partial_failure # "undefined"
           /\ p.given[1] \in {"undefined", "true"} => p.dry_run = "true"
           /\ p.given[2] = "undefined" => p.partial_failure = "false"
           /\ p.dry_run = "false" => p.given[1] = "false"

\* a mutate request was sent with both options omitted
C8_Witness ==
    \E c \in MutateCalls : calls[c].params.given = <<"undefined", "undefined">>

\* C9: a live mutation is sent only for a caller that supplied the boolean
\* false as the dry-run parameter.
LiveCalls == {c \in MutateCalls : calls[c].params.dry_run = "false"}

C9_LiveOnlyOnExplicitFalse ==
    \A c \in LiveCalls :
        calls[c].owner # 0 => invocations[calls[c].owner].raw = "false"

\* C10: createCampaign sends a live mutate only after a dry-run mutate of the
\* same operations has returned success in the same invocation; after a failed
\* dry run it returns the validation-failed summary with no live mutate; with
\* the option true or omitted it sends none.
LiveOf(k) == {c \in LiveCalls : calls[c].owner = k}

C10_DryRunFirst ==
    /\ \A c \in LiveCalls :
          \E d \in 1..(c - 1) :
              /\ calls[d].owner = calls[c].owner
              /\ calls[d].params.name = "mutate"
              /\ calls[d].params.dry_run = "true"
              /\ calls[d].params.operations = calls[c].params.operations
              /\ calls[d].state = "resolved"
              /\ Unwrap(calls[d].value) = "success"
    /\ \A k \in 1..Len(invocations) :
          /\ invocations[k].summary = "validation failed" => LiveOf(k) = {}
          /\ invocations[k].option \in {"true", "undefined"} => LiveOf(k) = {}
          /\ \A d \in CallIds :
                (/\ calls[d].owner = k /\ calls[d].kont = "dry"
                 /\ calls[d].state = "resolved"
                 /\ Unwrap(calls[d].value) # "success") =>
                    /\ invocations[k].summary = "validation failed"
                    /\ invocations[k].pc = "returned"

\* an invocation went through its dry run and then its live mutate
C10_Witness ==
    \E k \in 1..Len(invocations) :
        invocations[k].summary = "created" /\ LiveOf(k) # {}

(* ----------------------- claims on the tool loop ----------------------- *)
Turns == 1..Len(agent.responses)
ToolTurns == {n \in Turns : agent.responses[n].stop_reason = "tool_use"}
Asked(n) == ToolUseBlocks(agent.responses[n].content)
\* the turn's tool uses have been gone through and the loop has moved on
TurnDone(n) ==
    \/ Len(agent.requests) > n
    \/ n = Len(agent.requests) /\ agent.pc = "failed"
LastEntry(input) == input[Len(input)]

\* C11: after a response with K tool uses, the next request's input ends with
\* one entry of exactly K tool results, the i-th carrying the id of the i-th
\* tool use, whichever handlers are unknown, throw, or return what cannot be
\* serialised.
C11_ResultPerToolUse ==
    \A n \in ToolTurns :
        Len(agent.requests) > n =>
            LET input == agent.requests[n + 1]
                results == LastEntry(input).content
            IN /\ Len(input) = Len(agent.requests[n]) + 2
               /\ LastEntry(input).role = "user"
               /\ Len(results) = Len(Asked(n))
               /\ \A i \in 1..Len(results) :
                     /\ results[i].type = "tool_result"
                     /\ results[i].tool_use_id = Asked(n)[i].id

\* a turn asked for an unknown tool, a tool whose handler threw and a tool whose
\* handler returned a value that does not serialise, and the next request went
\* out with their three results
C11_Witness ==
    \E n \in ToolTurns :
        /\ Len(agent.requests) > n
        /\ Len(Asked(n)) = 3
        /\ Asked(n)[1].name = "bogus"
        /\ \E x, y \in 1..Len(agent.outcomes) :
              /\ agent.outcomes[x].turn = n /\ agent.outcomes[y].turn = n
              /\ agent.outcomes[x].outcome.kind = "throws"
              /\ agent.outcomes[y].outcome.value = "circular"
        /\ Len(LastEntry(agent.requests[n + 1]).content) = 3

\* C12: runAgent sends at most maxIterations requests; it fails with the
\* exceeded-max-iterations error exactly when maxIterations requests were
\* answered and none of the answers was the completion signal; nothing is sent
\* after that.
C12_IterationCap ==
    agent.pc # "idle" =>
        /\ Len(agent.requests) <= agent.maxIterations
        /\ agent.pc = "failed" =>
               /\ Len(agent.requests) = agent.maxIterations
               /\ Len(agent.responses) = agent.maxIterations
               /\ \A n \in Turns : agent.responses[n].stop_reason # "end_turn"
               /\ agent.result.kind = "threw"
               /\ agent.result.message = <<"Agent exceeded max iterations">>
        /\ (/\ Len(agent.responses) = agent.maxIterations
            /\ \A n \in Turns : agent.responses[n].stop_reason # "end_turn"
            /\ agent.pc # "awaitingHandler") => agent.pc = "failed"

\* a run with maxIterations 2 failed after two requests, the second of which
\* was answered with tool uses
C12_Witness ==
    /\ agent.pc = "failed"
    /\ agent.maxIterations = 2
    /\ Len(agent.requests) = 2
    /\ agent.responses[2].stop_reason = "tool_use"

\* C13: when a handler throws an Error with message M, or the tool has no
\* handler, the next request holds for that tool use an error-flagged result
\* whose content is "Error: " followed by exactly M (the unknown-tool message
\* for a missing handler), and the tool uses after it in the turn are still
\* gone through: every registered one has had its handler called.
Thrown(n, i) ==
    {agent.outcomes[x].outcome.error : x \in
        {y \in 1..Len(agent.outcomes) :
            /\ agent.outcomes[y].turn = n /\ agent.outcomes[y].tool = i
            /\ agent.outcomes[y].outcome.kind = "throws"
            /\ agent.outcomes[y].outcome.error.isError}}

Called(n, i) ==
    \E y \in 1..Len(agent.outcomes) :
        agent.outcomes[y].turn = n /\ agent.outcomes[y].tool = i

DeliveredLater(n, id) ==
    \E m \in (n + 1)..Len(agent.requests) :
        \E k \in 1..Len(agent.requests[m]) :
            LET entry == agent.requests[m][k]
            IN /\ entry.role = "user"
               /\ \E j \in 1..Len(entry.content) :
                     /\ entry.content[j].type = "tool_result"
                     /\ entry.content[j].tool_use_id = id

C14_NoResultDropped ==
    agent.pc \in {"completed", "failed"} =>
        \A x \in 1..Len(agent.outcomes) :
            \/ DeliveredLater(agent.outcomes[x].turn,
                              Asked(agent.outcomes[x].turn)[agent.outcomes[x].tool].id)
            \/ agent.result.kind = "returned"

\* C15: the audit list holds one record for each handler call that has
\* settled, in the order of the calls, with the tool's name and input and what
\* the handler returned or threw.
OutcomeOf(x) == agent.outcomes[x].outcome
BlockOf(x) == Asked(agent.outcomes[x].turn)[agent.outcomes[x].tool]

C15_AuditComplete ==
    /\ Len(agent.toolCallLog) = Len(agent.outcomes)
    /\ \A x \in 1..Len(agent.toolCallLog) :
          /\ agent.toolCallLog[x].tool = BlockOf(x).name
          /\ agent.toolCallLog[x].input = BlockOf(x).input
          /\ OutcomeOf(x).kind = "returns" =>
                 agent.toolCallLog[x].result = OutcomeOf(x).value

\* C16: every handler of a turn is started before any handler of that turn has
\* settled.
EventAt(p) == agent.events[p]

C16_StartedTogether ==
    \A p, q \in 1..Len(agent.events) :
        (/\ EventAt(p).e = "settle" /\ EventAt(q).e = "start"
         /\ EventAt(p).turn = EventAt(q).turn) => q < p

\* C17: a request goes out only when every handler started so far has settled
\* and every request before it has been answered; each request's input is the
\* input of the request before it, followed, when that one was answered with
\* tool uses, by the assistant entry with the answer's content and one
\* tool-result entry; and the conversation is the last input, grown by no more
\* than that.
Count(e, p) == Cardinality({q \in 1..p : EventAt(q).e = e})

IsPrefix(s, t) == Len(s) <= Len(t) /\ SubSeq(t, 1, Len(s)) = s

C17_TurnsSequential ==
    /\ \A p \in 1..Len(agent.events) :
          EventAt(p).e = "request" =>
              /\ Count("start", p) = Count("settle", p)
              /\ Count("request", p) = Count("response", p) + 1
    /\ Len(agent.requests) - Len(agent.responses) \in {0, 1}
    /\ agent.pc = "awaitingHandler" => Len(agent.requests) = Len(agent.responses)
    /\ \A n \in Turns :
          Len(agent.requests) > n =>
              LET before == agent.requests[n]
                  input == agent.requests[n + 1]
              IN IF n \in ToolTurns
                 THEN /\ Len(input) = Len(before) + 2
                      /\ IsPrefix(before, input)
                      /\ input[Len(before) + 1] =
                            [role |-> "assistant",
                             content |-> agent.responses[n].content]
                      /\ input[Len(before) + 2].role = "user"
                      /\ Len(input[Len(before) + 2].content) = Len(Asked(n))
                 ELSE input = before
    /\ agent.requests # <<>> =>
          IsPrefix(agent.requests[Len(agent.requests)], agent.messages)

\* the second request went out after both handlers of the first turn had
\* settled
C17_Witness ==
    /\ Len(agent.requests) = 2
    /\ 1 \in ToolTurns
    /\ Called(1, 1) /\ Called(1, 2)
    /\ agent.pc = "awaitingModel"

(* ------------------ claims on the bridge's life cycle ------------------ *)
\* everything of the bridge and its subprocesses but what the last call threw
FrameButThrown ==
    <<process, requestId, pendingRequests, buffer, initialized, timers, calls,
      mcpInstance, invocations, children, wrote, received, lineLog, agent, build,
                   singleton>>

\* C18: start() on a bridge that holds a process throws the already-started
\* error and changes nothing else: no subprocess is spawned, and the handle,
\* the initialized flag, the id counter, the buffer, the pending set, the
\* timers and the requests are as before.
C18_StartTwiceRejected ==
    [][(process # 0 /\ Start) =>
          (thrown' = "MCP already started" /\ UNCHANGED FrameButThrown)]_vars

\* start() was refused while the handshake of the one subprocess was pending
C18_Witness ==
    /\ thrown = "MCP already started"
    /\ Len(children) = 1
    /\ process = 1
    /\ Len(calls) = 1 /\ calls[1].state = "pending"

\* C19: a verb called on a bridge that holds no process throws the
\* not-initialized or the not-started error at once: no id is allocated, no
\* request is registered, no timer armed and nothing written to a subprocess.
C19_NoConnectionFailsFast ==
    [][(process = 0 /\ ListAccounts) =>
          (/\ thrown' \in {"MCP not initialized", "MCP not started"}
           /\ UNCHANGED FrameButThrown)]_vars

\* a verb was refused on a bridge whose subprocess has exited, on one that was
\* stopped, or on one never started
C19_Witness ==
    /\ thrown \in {"MCP not initialized", "MCP not started"}
    /\ process = 0
    /\ Len(children) = 1
    /\ children[1].life = "exited"
    /\ Len(calls) = 1 /\ calls[1].state = "resolved"

\* C20: stop() on a bridge that holds a process signals that subprocess and
\* leaves the bridge with no handle and initialized false, touching nothing
\* else; stop() on a bridge that holds none, as a second stop() does, changes
\* nothing and signals nobody.
BridgeRest ==
    <<requestId, pendingRequests, buffer, timers, calls, mcpInstance,
      invocations, wrote, received, lineLog, agent, build,
                   singleton>>

C20_StopIdempotent ==
    [][Stop =>
          IF process # 0
          THEN /\ process' = 0
               /\ initialized' = FALSE
               /\ children' = [children EXCEPT ![process].life = "killed"]
               /\ UNCHANGED BridgeRest
          ELSE UNCHANGED FrameButThrown]_vars

\* the bridge was stopped while a request of its subprocess was pending, and
\* holds no handle
C20_Witness ==
    /\ process = 0
    /\ initialized = FALSE
    /\ Len(children) = 1
    /\ children[1].life = "killed"
    /\ Len(calls) = 2 /\ calls[2].state = "pending"

\* C21: the connection state of the bridge only moves forward along
\* Uninitialized, Starting/Initializing (a process is held, the flag is down),
\* Ready (a process is held, the flag is up), Terminated (started once, no
\* process held); in particular a Terminated bridge never holds a process
\* again.
ConnState ==
    IF process # 0 THEN IF initialized THEN "Ready" ELSE "Initializing"
    ELSE IF children = <<>> THEN "Uninitialized" ELSE "Terminated"

Rank(state) ==
    CASE state = "Uninitialized" -> 0
      [] state = "Initializing" -> 1
      [] state = "Ready" -> 2
      [] state = "Terminated" -> 3

C21_OneWay == [][Rank(ConnState') >= Rank(ConnState)]_vars

StartSettles(c) ==
    /\ c \in 1..Len(calls)
    /\ calls[c].method = "initialize"
    /\ calls[c].state = "pending"
    /\ calls'[c].state # "pending"

C24_StartAfterHandshake ==
    /\ [][\A c \in 1..MaxCalls :
             (StartSettles(c) /\ calls'[c].state = "resolved") =>
                 /\ calls'[c].returned = Void
                 /\ calls'[c].line # <<>>
                 /\ JSONParse(calls'[c].line).id = calls[c].id
                 /\ ~JSONParse(calls'[c].line).error
                 /\ initialized']_vars
    /\ [][\A c \in 1..MaxCalls :
             (StartSettles(c) /\ calls'[c].state # "resolved") =>
                 /\ calls'[c].state = "rejected"
                 /\ calls'[c].value \in {<<"m">>, TimedOut("initialize")}
                 /\ initialized' = initialized
                 /\ calls'[c].returned = calls'[c].value]_vars
    /\ [][\A c \in 1..MaxCalls :
             (c \in 1..Len(calls') /\ calls'[c].method = "initialize"
                /\ calls'[c].state = "pending") =>
                 calls'[c].returned = "nothing"]_vars

\* one start() has returned after its handshake was acknowledged, and another
\* start() on the bridge has failed with the error of its handshake
C24_Witness ==
    \E a, b \in 1..Len(calls) :
        /\ calls[a].method = "initialize" /\ calls[b].method = "initialize"
        /\ calls[a].state = "resolved" /\ calls[a].returned = Void
        /\ calls[b].state = "rejected" /\ calls[b].returned = <<"m">>

\* C26: whenever the initialized flag is up the bridge holds a process handle.
C26_ReadyHasProcess == initialized => process # 0

\* C27: an exit event of a subprocess that is not the one the bridge holds,
\* delivered while the bridge holds a newer one, leaves the process handle and
\* the initialized flag of the new connection as they are.
C27_OldExitHarmless ==
    [][\A h \in 1..Len(children) :
          (Exit(h) /\ process # 0 /\ h # process) =>
              (process' = process /\ initialized' = initialized)]_vars

\* C29 as stated: a response whose stop reason is neither end_turn nor
\* tool_use leaves the conversation and the audit list as they are, adds its
\* token usage to the totals, and is followed by one more request, carrying
\* the same conversation as the request it answered.
OtherResponses(a) ==
    {r \in Responses(a) : r.stop_reason \notin {"end_turn", "tool_use"}}

OtherFrame(r) ==
    /\ agent'.messages = agent.messages
    /\ agent'.toolCallLog = agent.toolCallLog
    /\ agent'.totalInputTokens = agent.totalInputTokens + r.usage.input_tokens
    /\ agent'.totalOutputTokens = agent.totalOutputTokens + r.usage.output_tokens
    /\ agent'.result.kind # "returned"

Resent ==
    /\ agent'.pc = "awaitingModel"
    /\ agent'.iterations = agent.iterations + 1
    /\ Len(agent'.requests) = Len(agent.requests) + 1
    /\ agent'.requests[Len(agent'.requests)] = agent.requests[Len(agent.requests)]

C29_AlwaysResent ==
    [][\A r \in OtherResponses(agent) :
          ServiceResponds(r) => (OtherFrame(r) /\ Resent)]_vars

\* C29, amended: such a response leaves the conversation and the audit list
\* as they are and adds its token usage to the totals; while iterations are
\* left it is followed by one more request with the same conversation, which
\* uses up one iteration, and when none is left the invocation fails with the
\* iteration error; in both cases nothing is returned as the answer.
C29_ResentWhileIterationsLeft ==
    [][\A r \in OtherResponses(agent) :
          ServiceResponds(r) =>
              /\ OtherFrame(r)
              /\ IF agent.iterations < agent.maxIterations
                 THEN Resent
                 ELSE /\ agent'.pc = "failed"
                      /\ agent'.result.kind = "threw"
                      /\ agent'.result.message = <<"Agent exceeded max iterations">>
                      /\ agent'.iterations = agent.iterations
                      /\ agent'.requests = agent.requests]_vars

\* the first response was cut off at max_tokens, its usage is in the totals,
\* and the opening conversation has been sent a second time as iteration 2
C29_Witness ==
    /\ agent.pc = "awaitingModel"
    /\ agent.maxIterations = 2 /\ agent.iterations = 2
    /\ Len(agent.responses) = 1
    /\ agent.responses[1].stop_reason = "max_tokens"
    /\ Len(agent.requests) = 2
    /\ agent.requests[2] = agent.requests[1]
    /\ agent.totalInputTokens = agent.responses[1].usage.input_tokens
    /\ agent.totalOutputTokens = agent.responses[1].usage.output_tokens
    /\ agent.totalOutputTokens > 0

\* C28: every runAgent invocation ends Completed or Failed, given that every
\* call of the reasoning service returns and every handler step is taken.
C28_Terminates == (agent.pc # "idle") ~> (agent.pc \in {"completed", "failed"})

\* C30: the list buildCampaignOperations returns is the budget, the campaign,
\* one location criterion per recognised location in the order of the spec,
\* then for each ad group the ad group, its keywords and its ads; the
\* temporary ids handed out are pairwise distinct; every operation that refers
\* to a temporary budget, campaign or ad group comes after the operation that
\* creates it (for an ad group, the nearest ad group before it); and the list
\* has 2 + recognised locations + sum over ad groups of (1 + keywords + ads)
\* operations.
Recognised(location) ==
    \/ \E i \in 1..Len(OHIO_GEO_TARGETS) : OHIO_GEO_TARGETS[i].key = location
    \/ location \in InheritedKeys
    \/ LET lower == ToLowerCase(location)
       IN \E i \in 1..Len(OHIO_GEO_TARGETS) :
             \/ LowerKeys[i] = lower
             \/ StartsWith(LowerKeys[i], BeforeComma(lower))

RECURSIVE Flatten(_)
Flatten(seqs) == IF seqs = <<>> THEN <<>> ELSE Head(seqs) \o Flatten(Tail(seqs))

Repeat(x, n) == [i \in 1..n |-> x]

ExpectedEntities(spec) ==
    <<"campaign_budget", "campaign">>
    \o Repeat("campaign_criterion",
              Len(SelectSeq(spec.locations, Recognised)))
    \o Flatten([g \in 1..Len(spec.adGroups) |->
                   <<"ad_group">>
                   \o Repeat("ad_group_criterion", Len(spec.adGroups[g].keywords))
                   \o Repeat("ad_group_ad", Len(spec.adGroups[g].ads))])

RECURSIVE SumOver(_, _)
SumOver(f, n) == IF n = 0 THEN 0 ELSE f[n] + SumOver(f, n - 1)

GroupSize(spec) ==
    SumOver([g \in 1..Len(spec.adGroups) |->
                1 + Len(spec.adGroups[g].keywords) + Len(spec.adGroups[g].ads)],
            Len(spec.adGroups))

CreatedBefore(ops, p, entity, name) ==
    \E q \in 1..(p - 1) :
        /\ ops[q].entity = entity
        /\ ops[q].resource.resource_name = name
        /\ entity = "ad_group" =>
               \A r \in (q + 1)..(p - 1) : ops[r].entity # "ad_group"

C30_DependencyOrder ==
    build.pc = "returned" =>
        LET ops == build.built.operations
            ids == build.built.issued
            spec == build.spec
        IN /\ [p \in 1..Len(ops) |-> ops[p].entity] = ExpectedEntities(spec)
           /\ Len(ops) = 2 + Len(SelectSeq(spec.locations, Recognised))
                           + GroupSize(spec)
           /\ Len(ids) = 2 + GroupSize(spec)
           /\ \A i, j \in 1..Len(ids) : i # j => ids[i] # ids[j]
           /\ \A p \in 1..Len(ops) :
                 /\ ops[p].entity = "campaign" =>
                        CreatedBefore(ops, p, "campaign_budget",
                                      ops[p].resource.campaign_budget)
                 /\ ops[p].entity \in {"campaign_criterion", "ad_group"} =>
                        CreatedBefore(ops, p, "campaign", ops[p].resource.campaign)
                 /\ ops[p].entity \in {"ad_group_criterion", "ad_group_ad"} =>
                        CreatedBefore(ops, p, "ad_group", ops[p].resource.ad_group)

\* a spec with an unknown and a recognised location and two ad groups of one
\* keyword and one ad each has been built into nine operations
C30_Witness ==
    /\ build.pc = "returned"
    /\ build.spec.locations = <<<<"P", "a", "r", "i", "s">>, <<"P", "o", "w", "e", "l", "l">>>>
    /\ Len(build.spec.adGroups) = 2
    /\ \A g \in 1..2 : /\ Len(build.spec.adGroups[g].keywords) = 1
                        /\ Len(build.spec.adGroups[g].ads) = 1
    /\ Len(build.built.operations) = 9
    /\ build.built.operations[9].resource.ad_group = "customers/123/adGroups/-6"

\* C23: at most one subprocess started through getMCP is alive at a time.
LiveBridges ==
    {b \in 1..Len(singleton.bridges) :
        singleton.bridges[b].children[1].life = "running"}

C23_OneConnection == Cardinality(LiveBridges) <= 1

\* C25: the bridge getMCP resolves with is Ready at that moment, and a
\* callTool on it is not refused before sending.
C25_ResolvesReady ==
    singleton.resolved.how # "none" =>
        (singleton.resolved.ready /\ singleton.resolved.callTool = "none")

====
